---- MODULE Spec2Model ----
(***************************************************************************)
(* A model of objectutil.js: clone, safeWrap / unwrap, updateIn and        *)
(* updateOrAppend, over a JavaScript heap.                                 *)
(*                                                                         *)
(* A JavaScript value is a primitive (undefined, null, a boolean, a        *)
(* number, a string) or a reference to a heap object (an array, a plain    *)
(* object, a Date, a function, a Proxy, or the box that _safeWrap builds  *)
(* around a non-object).  Object identity is the heap address, so that     *)
(* aliasing, === on containers and mutation through a shared reference     *)
(* are what they are in the program.                                       *)
(***************************************************************************)
EXTENDS Integers, Sequences, FiniteSets, TLC

VARIABLES
    heap,     \* the JavaScript heap: a sequence of objects, address = index
    pc,       \* where the caller is: "start", then the name of the call made
    arg,      \* the caller's argument (clone, safeWrap) or list (updateIn...)
    cand,     \* the caller's candidate record (updateIn, updateOrAppend),
              \* its mapper (toArray, toObject), its filterFunction (filter)
    idKey,    \* the key argument of updateIn / updateOrAppend / toObject,
              \* if given
    out,      \* what the call returned
    raised,   \* TRUE when a call or a property access threw
    snapArg,  \* the value of arg when the call returned
    snapCand, \* the value of cand when the call returned
    snapOut,  \* the value of out when the call returned
    touched,  \* which sides the caller has mutated since: "arg", "out"
    muts,     \* how many mutations the caller has made
    cur,      \* the wrapper the caller holds (safeWrap, then navigation)
    chain,    \* the keys navigated from the root wrapper to cur
    uw,       \* what the last unwrap returned
    snapUw,   \* the value of uw when unwrap returned
    rewrapped, \* what safeWrap returned for the wrapper cur
    calls,    \* how many calls of updateIn / updateOrAppend the caller made
    ret       \* what a function and its clone returned when called alike

vars == <<heap, pc, arg, cand, idKey, out, raised, snapArg, snapCand,
          snapOut, touched, muts, cur, chain, uw, snapUw, rewrapped, calls,
          ret>>

----------------------------------------------------------------------------
(* Bounds of the model.                                                    *)

MaxLen == 2      \* longest array among the caller's inputs
MaxMut == 1      \* mutations the caller makes after a call
MaxSteps == 3    \* navigations and mutations a caller of safeWrap makes
MaxList == 2     \* longest record list handed to updateIn / updateOrAppend
MaxCalls == 3    \* calls of updateOrAppend in a series, each on the last result

----------------------------------------------------------------------------
(* Values.                                                                 *)

Undefined == [t |-> "undefined"]
Null == [t |-> "null"]
Bool(b) == [t |-> "boolean", b |-> b]
Num(n) == [t |-> "number", n |-> n]
Str(s) == [t |-> "string", s |-> s]
Ref(a) == [t |-> "ref", a |-> a]

IsRef(v) == v.t = "ref"

\* ToBoolean: the falsy values are undefined, null, false, 0 and "".
Truthy(v) ==
    CASE v.t = "undefined" -> FALSE
      [] v.t = "null" -> FALSE
      [] v.t = "boolean" -> v.b
      [] v.t = "number" -> v.n # 0
      [] v.t = "string" -> v.s # ""
      [] OTHER -> TRUE

(* Heap objects.  An array keeps its length, its present integer-indexed   *)
(* slots (a hole is an index below the length that is not in the domain of *)
(* elems) and its other own properties in insertion order.                 *)
ArrayObj(len, elems, props) ==
    [k |-> "array", len |-> len, elems |-> elems, props |-> props]
PlainObj(props) == [k |-> "object", props |-> props]
DateObj(time) == [k |-> "date", time |-> time]
FuncObj(f, bound) == [k |-> "function", f |-> f, bound |-> bound]
\* { [wrapKey]: { value: input } }
BoxObj(value) == [k |-> "box", value |-> value]
\* new Proxy(target, { get })
ProxyObj(target) == [k |-> "proxy", target |-> target]

Prop(key, v) == [key |-> key, v |-> v]

\* The module-level Symbol() that only objectutil.js holds.
wrapKey == "@@wrapKey"

(* Property names are strings; an array index i is the name IndexName(i).  *)
IndexNames == <<"0", "1", "2", "3", "4", "5", "6", "7", "8", "9">>
IndexName(i) == IndexNames[i + 1]
IsIndexName(key) == \E i \in 1..Len(IndexNames) : IndexNames[i] = key
IndexOf(key) == (CHOOSE i \in 1..Len(IndexNames) : IndexNames[i] = key) - 1

\* Names that are not array indices and that Number() still converts to a
\* number: a[-1] = x and a[1.5] = x set the own properties "-1" and "1.5".
NumericNames == {"-1", "1.5"}

\* isNaN(key) for a property name: Number(key) is NaN.
isNaN(key) == ~(IsIndexName(key) \/ key \in NumericNames)

----------------------------------------------------------------------------
(* The heap.                                                               *)

Alloc(h, obj) == [h |-> Append(h, obj), a |-> Len(h) + 1]

\* What an operation hands back: the heap after it, its value, and whether
\* it threw.
Ok(h, v) == [h |-> h, v |-> v, err |-> FALSE]
Throw(h) == [h |-> h, v |-> Undefined, err |-> TRUE]

HasProp(props, key) == \E i \in 1..Len(props) : props[i].key = key
PropAt(props, key) == props[CHOOSE i \in 1..Len(props) : props[i].key = key].v
PutProp(props, key, v) ==
    IF HasProp(props, key)
    THEN [i \in 1..Len(props) |->
            IF props[i].key = key THEN Prop(key, v) ELSE props[i]]
    ELSE Append(props, Prop(key, v))
DelProp(props, key) == SelectSeq(props, LAMBDA p : p.key # key)
PropKeys(props) == [i \in 1..Len(props) |-> props[i].key]

\* The target a chain of proxies ends in (Array.isArray and instanceof see
\* through a Proxy that has no trap for them).
RECURSIVE TargetOf(_, _)
TargetOf(h, a) == IF h[a].k = "proxy" THEN TargetOf(h, h[a].target) ELSE a

\* The present indices of an array, ascending.
RECURSIVE Ascending(_)
Ascending(S) ==
    IF S = {} THEN <<>>
    ELSE LET m == CHOOSE x \in S : \A y \in S : x <= y
         IN <<m>> \o Ascending(S \ {m})

\* Object.keys(o): the own enumerable string keys; integer indices first,
\* ascending, then the other names in insertion order.  A Proxy without an
\* ownKeys trap answers with its target's keys; the box has only a symbol
\* key, a Date and a function have none.
ObjectKeys(h, a) ==
    LET o == h[TargetOf(h, a)]
    IN CASE o.k = "array" ->
                [i \in 1..Cardinality(DOMAIN o.elems) |->
                    IndexName(Ascending(DOMAIN o.elems)[i])]
                \o PropKeys(o.props)
         [] o.k = "object" -> PropKeys(o.props)
         [] OTHER -> <<>>

\* array.push(v)
ArrayPush(h, a, v) ==
    [h EXCEPT ![a] = [@ EXCEPT !.len = @ + 1,
                               !.elems = [i \in DOMAIN @ \cup {h[a].len} |->
                                            IF i = h[a].len THEN v ELSE @[i]]]]

\* o[key] = v on an array or a plain object.
SetProp(h, a, key, v) ==
    LET o == h[a]
    IN CASE o.k = "array" /\ IsIndexName(key) ->
                LET i == IndexOf(key)
                IN [h EXCEPT ![a] =
                      [@ EXCEPT !.len = IF i >= @ THEN i + 1 ELSE @,
                                !.elems = [j \in DOMAIN @ \cup {i} |->
                                             IF j = i THEN v ELSE @[j]]]]
         [] o.k \in {"array", "object"} ->
                [h EXCEPT ![a] = [@ EXCEPT !.props = PutProp(@, key, v)]]
         [] OTHER -> h

\* Date.prototype.getTime, the one inherited property the model keeps: the
\* function object every heap starts with.
getTimeFn == 1

\* o[key] for a heap object that is no Proxy and a string key: the own
\* property, the inherited getTime of a Date, or undefined.
OwnOrInherited(h, a, key) ==
    LET o == h[a]
    IN CASE o.k = "array" /\ IsIndexName(key) ->
                IF IndexOf(key) \in DOMAIN o.elems
                THEN o.elems[IndexOf(key)] ELSE Undefined
         [] o.k = "array" /\ key = "length" -> Num(o.len)
         [] o.k \in {"array", "object"} ->
                IF HasProp(o.props, key) THEN PropAt(o.props, key)
                ELSE Undefined
         [] o.k = "date" /\ key = "getTime" -> Ref(getTimeFn)
         [] OTHER -> Undefined

\* typeof v
TypeOf(h, v) ==
    IF IsRef(v)
    THEN IF h[TargetOf(h, v.a)].k = "function" THEN "function" ELSE "object"
    ELSE IF v.t = "null" THEN "object" ELSE v.t

\* Array.isArray(v)
IsArray(h, v) == IsRef(v) /\ h[TargetOf(h, v.a)].k = "array"

\* v instanceof Date: the prototype chain of a Proxy is its target's.
InstanceOfDate(h, v) == IsRef(v) /\ h[TargetOf(h, v.a)].k = "date"

----------------------------------------------------------------------------
(* clone, _safeWrap, safeWrap, unwrap and property access.  They are       *)
(* mutually recursive: reading a property of a Proxy runs its get trap,    *)
(* which calls safeWrap, which calls clone, which reads properties.        *)

RECURSIVE clone(_, _)
RECURSIVE CloneArrayKeys(_, _, _, _)
RECURSIVE CloneObjectKeys(_, _, _, _)
RECURSIVE safeWrap(_, _)
RECURSIVE Get(_, _, _)

\* A get trap that hands target[key] out as it is.
ProxyGetRaw(h, target, key) ==
    IF key = wrapKey
    THEN IF h[target].k = "box"
         THEN Ok(h, h[target].value)
         ELSE Ok(h, Ref(target))
    ELSE Get(h, Ref(target), key)

\* The get trap of the Proxy that _safeWrap builds.
ProxyGet(h, target, key) ==
    IF key = wrapKey
    THEN IF h[target].k = "box"
         THEN Ok(h, h[target].value)
         ELSE Ok(h, Ref(target))
    ELSE LET g == Get(h, Ref(target), key)
         IN IF g.err THEN g ELSE safeWrap(g.h, g.v)

\* v[key]: a TypeError on undefined and null, the get trap on a Proxy.
Get(h, v, key) ==
    IF v.t \in {"undefined", "null"} THEN Throw(h)
    ELSE IF ~IsRef(v) THEN Ok(h, Undefined)
    ELSE IF h[v.a].k = "proxy" THEN ProxyGet(h, h[v.a].target, key)
    ELSE Ok(h, OwnOrInherited(h, v.a, key))

\* The forEach loop of _cloneArray over the keys left.
CloneArrayKeys(h, array, output, keys) ==
    IF keys = <<>> THEN Ok(h, Ref(output))
    ELSE LET key == Head(keys)
             g == Get(h, array, key)
         IN IF g.err THEN g
            ELSE LET c == clone(g.h, g.v)
                 IN IF c.err THEN c
                    ELSE CloneArrayKeys(
                            IF ~isNaN(key)
                            THEN ArrayPush(c.h, output, c.v)
                            ELSE SetProp(c.h, output, key, c.v),
                            array, output, Tail(keys))

_cloneArray(h, array) ==
    LET output == Alloc(h, ArrayObj(0, <<>>, <<>>))
    IN CloneArrayKeys(output.h, array, output.a, ObjectKeys(h, array.a))

\* The forEach loop of _cloneObject over the keys left.
CloneObjectKeys(h, object, output, keys) ==
    IF keys = <<>> THEN Ok(h, Ref(output))
    ELSE LET key == Head(keys)
             g == Get(h, object, key)
         IN IF g.err THEN g
            ELSE LET c == clone(g.h, g.v)
                 IN IF c.err THEN c
                    ELSE CloneObjectKeys(SetProp(c.h, output, key, c.v),
                                         object, output, Tail(keys))

\* A clone of a Date that is the Date itself.
SameDate(h, object) == Ok(h, object)

\* new Date(object.getTime()): the call throws when object.getTime is no
\* function.
NewDate(h, object) ==
    LET g == Get(h, object, "getTime")
    IN IF g.err THEN g
       ELSE IF IsRef(g.v) /\ g.h[g.v.a].k = "function"
       THEN LET d == Alloc(g.h, DateObj(g.h[TargetOf(g.h, object.a)].time))
            IN Ok(d.h, Ref(d.a))
       ELSE Throw(g.h)

_cloneObject(h, object) ==
    IF InstanceOfDate(h, object) THEN NewDate(h, object)
    ELSE LET output == Alloc(h, PlainObj(<<>>))
         IN CloneObjectKeys(output.h, object, output.a, ObjectKeys(h, object.a))

clone(h, input) ==
    LET inputType == TypeOf(h, input)
    IN IF IsArray(h, input) THEN _cloneArray(h, input)
       ELSE IF Truthy(input) /\ inputType = "object" THEN _cloneObject(h, input)
       ELSE IF inputType \in {"string", "number", "boolean"}
               \/ input.t = "undefined" \/ input.t = "null"
       THEN Ok(h, input)
       ELSE IF inputType = "function"
       THEN \* input.bind(this): a new function object
            LET f == Alloc(h, FuncObj(h[input.a].f, TRUE))
            IN Ok(f.h, Ref(f.a))
       ELSE Ok(h, input)

_safeWrap(h, input) ==
    LET \* input && input[wrapKey]
        probe == IF Truthy(input) THEN Get(h, input, wrapKey) ELSE Ok(h, input)
    IN IF probe.err THEN probe
       ELSE IF Truthy(probe.v) THEN Ok(probe.h, input)
       ELSE LET isObject == TypeOf(probe.h, input) = "object" /\ input.t # "null"
                target == IF isObject THEN [h |-> probe.h, a |-> input.a]
                          ELSE Alloc(probe.h, BoxObj(input))
                proxy == Alloc(target.h, ProxyObj(target.a))
            IN Ok(proxy.h, Ref(proxy.a))

\* A safeWrap that wraps its argument itself.
safeWrapNoClone(h, input) == _safeWrap(h, input)

safeWrap(h, input) ==
    LET c == clone(h, input)
    IN IF c.err THEN c ELSE _safeWrap(c.h, c.v)

unwrap(h, wrappedInput) == Get(h, wrappedInput, wrapKey)

\* a === b without NaN: primitives by type and value, objects by identity.
StrictEq(a, b) == a.t = b.t /\ a = b

\* The key parameter with its default: key = 'id'.
DefaultKey(key) == IF key.t = "undefined" THEN "id" ELSE key.s

\* {...source} into the object literal at output: the own enumerable
\* properties of an object, read one by one; undefined, null, a number
\* and a boolean have none.
RECURSIVE SpreadKeys(_, _, _, _)

\* output[key] = g for the first key left, g what source[key] gave.
SpreadAssign(g, output, source, keys) ==
    IF g.err THEN g
    ELSE SpreadKeys(SetProp(g.h, output, Head(keys), g.v), output, source,
                    Tail(keys))

SpreadKeys(h, output, source, keys) ==
    IF keys = <<>> THEN Ok(h, Ref(output))
    ELSE SpreadAssign(Get(h, source, Head(keys)), output, source, keys)

Spread(h, output, source) ==
    IF IsRef(source)
    THEN SpreadKeys(h, output, source, ObjectKeys(h, source.a))
    ELSE Ok(h, Ref(output))

\* What _updateIn hands back: results.array, results.updated.
Results(h, array, updated) ==
    [h |-> h, v |-> array, updated |-> updated, err |-> FALSE]
ResultsThrow(h) ==
    [h |-> h, v |-> Undefined, updated |-> FALSE, err |-> TRUE]

\* clonedArray[i] = merged, the object literal once both spreads are done.
MergeStore(new, clonedArray, i) ==
    IF new.err THEN ResultsThrow(new.h)
    ELSE Results(SetProp(new.h, clonedArray.a, IndexName(i), new.v),
                 clonedArray, TRUE)

\* ...c, c what clone(updatedObject) gave.
MergeSpread(c, merged, clonedArray, i) ==
    MergeStore(IF c.err THEN c ELSE Spread(c.h, merged, c.v), clonedArray, i)

\* ...clone(updatedObject), old the literal after ...clonedArray[i].
MergeClone(old, merged, clonedArray, updatedObject, i) ==
    MergeSpread(IF old.err THEN old ELSE clone(old.h, updatedObject),
                merged, clonedArray, i)

\* {...clonedArray[i], the literal just allocated at merged.a.
MergeInto(merged, clonedArray, updatedObject, i) ==
    MergeClone(Spread(merged.h, merged.a,
                      OwnOrInherited(merged.h, clonedArray.a, IndexName(i))),
               merged.a, clonedArray, updatedObject, i)

\* clonedArray[i] = {...clonedArray[i], ...clone(updatedObject)}
Merge(h, clonedArray, updatedObject, i) ==
    MergeInto(Alloc(h, PlainObj(<<>>)), clonedArray, updatedObject, i)

\* updatedObject[key] === object[key], and the update when it is so.
UpdateIfSame(mine, theirs, clonedArray, updatedObject, i) ==
    IF theirs.err THEN ResultsThrow(theirs.h)
    ELSE IF StrictEq(mine.v, theirs.v)
    THEN Merge(theirs.h, clonedArray, updatedObject, i)
    ELSE Results(theirs.h, clonedArray, FALSE)

\* The callback of clonedArray.some for the element at i, mine what
\* updatedObject[key] gave.
UpdateAt(mine, clonedArray, updatedObject, key, i) ==
    UpdateIfSame(mine,
                 IF mine.err THEN mine
                 ELSE Get(mine.h,
                          OwnOrInherited(mine.h, clonedArray.a, IndexName(i)),
                          key),
                 clonedArray, updatedObject, i)

RECURSIVE SomeFrom(_, _, _, _, _, _)

\* some goes on to the next index unless the callback returned true.
SomeNext(r, clonedArray, updatedObject, key, i, len) ==
    IF r.err \/ r.updated THEN r
    ELSE SomeFrom(r.h, clonedArray, updatedObject, key, i + 1, len)

\* clonedArray.some(...) from index i on: the indices below the length the
\* array had at the call, holes skipped, up to the first true.
SomeFrom(h, clonedArray, updatedObject, key, i, len) ==
    IF i >= len THEN Results(h, clonedArray, FALSE)
    ELSE SomeNext(IF i \in DOMAIN h[clonedArray.a].elems
                  THEN UpdateAt(Get(h, updatedObject, key), clonedArray,
                                updatedObject, key, i)
                  ELSE Results(h, clonedArray, FALSE),
                  clonedArray, updatedObject, key, i, len)

\* _updateIn from results on, c what clone(array || []) gave.
UpdateCloned(c, updatedObject, key) ==
    IF c.err THEN ResultsThrow(c.h)
    ELSE IF ~Truthy(updatedObject) THEN Results(c.h, c.v, FALSE)
    ELSE IF ~IsArray(c.h, c.v)
    THEN \* clonedArray.some is not a function
         ResultsThrow(c.h)
    ELSE SomeFrom(c.h, c.v, updatedObject, key, 0, c.h[c.v.a].len)

\* array || []
OrEmpty(h, array) ==
    IF Truthy(array) THEN Ok(h, array)
    ELSE LET empty == Alloc(h, ArrayObj(0, <<>>, <<>>))
         IN Ok(empty.h, Ref(empty.a))

\* A clonedArray that is the list itself.
SameList(list, updatedObject, key) ==
    UpdateCloned(list, updatedObject, key)

\* const clonedArray = clone(array || []), list what array || [] gave.
CloneList(list, updatedObject, key) ==
    UpdateCloned(clone(list.h, list.v), updatedObject, key)

_updateIn(h, array, updatedObject, key) ==
    CloneList(OrEmpty(h, array), updatedObject, DefaultKey(key))

\* return results.array
ResultsArray(results) ==
    IF results.err THEN Throw(results.h) ELSE Ok(results.h, results.v)

updateIn(h, array, updatedObject, key) ==
    ResultsArray(_updateIn(h, array, updatedObject, key))

\* results.array.push(c), c what clone(updatedObject) gave.
Push(results, c) ==
    IF c.err THEN c ELSE Ok(ArrayPush(c.h, results.v.a, c.v), results.v)

\* updateOrAppend from its if on, results what _updateIn gave.
AppendUnlessUpdated(results, updatedObject) ==
    IF results.err THEN Throw(results.h)
    ELSE IF ~results.updated /\ Truthy(updatedObject)
    THEN Push(results, clone(results.h, updatedObject))
    ELSE Ok(results.h, results.v)

updateOrAppend(h, array, updatedObject, key) ==
    AppendUnlessUpdated(_updateIn(h, array, updatedObject, key),
                        updatedObject)

----------------------------------------------------------------------------
(* The caller's side: the values a caller writes down, how they come to    *)
(* be on the heap, the value a reference denotes, and the mutations a      *)
(* caller can make through a reference it holds.                           *)

\* A value as a caller writes it: primitives as they are, containers as
\* literals, nested.
TArray(len, elems, props) ==
    [t |-> "array", len |-> len, elems |-> elems, props |-> props]
TObject(props) == [t |-> "object", props |-> props]
TDate(time) == [t |-> "date", time |-> time]
TFunc(f) == [t |-> "function", f |-> f]

IsLiteral(tree) == tree.t \in {"array", "object", "date", "function"}

RECURSIVE Build(_, _)
RECURSIVE BuildElems(_, _, _, _)
RECURSIVE BuildProps(_, _, _)

\* Evaluating a literal: the heap after it and the value it yields.
Build(h, tree) ==
    IF ~IsLiteral(tree) THEN [h |-> h, v |-> tree]
    ELSE IF tree.t = "date"
    THEN LET d == Alloc(h, DateObj(tree.time)) IN [h |-> d.h, v |-> Ref(d.a)]
    ELSE IF tree.t = "function"
    THEN LET f == Alloc(h, FuncObj(tree.f, FALSE)) IN [h |-> f.h, v |-> Ref(f.a)]
    ELSE LET o == Alloc(h, IF tree.t = "array"
                           THEN ArrayObj(tree.len, <<>>, <<>>)
                           ELSE PlainObj(<<>>))
             h1 == IF tree.t = "array"
                   THEN BuildElems(o.h, o.a, tree.elems,
                                   Ascending(DOMAIN tree.elems))
                   ELSE o.h
         IN [h |-> BuildProps(h1, o.a, tree.props), v |-> Ref(o.a)]

\* (No heap is empty, Heap0 is part of each: asking h = <<>> first has h
\* evaluated at every step, not as one chain of pending steps at the end.)
BuildElems(h, a, elems, indices) ==
    IF h = <<>> \/ indices = <<>> THEN h
    ELSE LET b == Build(h, elems[Head(indices)])
         IN BuildElems(SetProp(b.h, a, IndexName(Head(indices)), b.v),
                       a, elems, Tail(indices))

BuildProps(h, a, props) ==
    IF h = <<>> \/ props = <<>> THEN h
    ELSE LET b == Build(h, Head(props).v)
         IN BuildProps(SetProp(b.h, a, Head(props).key, b.v), a, Tail(props))

\* The value a JavaScript value denotes, containers by their contents
\* (toEqual's view: key order does not count, holes and lengths do).
RECURSIVE Snap(_, _)
Snap(h, v) ==
    IF ~IsRef(v) THEN v
    ELSE LET o == h[v.a]
         IN CASE o.k = "array" ->
                    [t |-> "array", len |-> o.len,
                     idx |-> [i \in DOMAIN o.elems |-> Snap(h, o.elems[i])],
                     p |-> [key \in {o.props[i].key : i \in 1..Len(o.props)} |->
                              Snap(h, PropAt(o.props, key))]]
              [] o.k = "object" ->
                    [t |-> "object",
                     p |-> [key \in {o.props[i].key : i \in 1..Len(o.props)} |->
                              Snap(h, PropAt(o.props, key))]]
              [] o.k = "date" -> [t |-> "date", time |-> o.time]
              [] o.k = "function" ->
                    [t |-> "function", f |-> o.f, bound |-> o.bound]
              [] o.k = "box" -> [t |-> "box", value |-> Snap(h, o.value)]
              [] o.k = "proxy" -> [t |-> "proxy", target |-> Snap(h, Ref(o.target))]

\* The containers a caller reaches from a value it holds: the object
\* itself and, through elements and properties, everything nested in it.
\* A Proxy gives no access to its target but through unwrap.
RECURSIVE Reach(_, _)
Reach(h, v) ==
    IF ~IsRef(v) THEN {}
    ELSE LET o == h[v.a]
         IN {v.a} \cup
            CASE o.k = "array" ->
                    UNION ({Reach(h, o.elems[i]) : i \in DOMAIN o.elems}
                           \cup {Reach(h, o.props[i].v) : i \in 1..Len(o.props)})
              [] o.k = "object" ->
                    UNION {Reach(h, o.props[i].v) : i \in 1..Len(o.props)}
              [] OTHER -> {}

\* The value a mutation writes: one no input holds.
Fresh == Str("changed")

\* The heaps one mutation of the object at a can lead to: an assignment
\* to an index or a name, delete, pop and push on an array, setTime on a
\* Date.
Mutations(h, a) ==
    LET o == h[a]
    IN CASE o.k = "array" ->
              {SetProp(h, a, key, Fresh) : key \in {"0", "foo"}}
              \cup {ArrayPush(h, a, Fresh)}
              \cup (IF o.len > 0
                    THEN {[h EXCEPT ![a] =
                            [@ EXCEPT !.len = o.len - 1,
                                      !.elems = [i \in DOMAIN @ \ {o.len - 1} |-> @[i]]]]}
                    ELSE {})
              \cup {[h EXCEPT ![a].props = DelProp(@, "foo")]}
         [] o.k = "object" ->
              {SetProp(h, a, key, Fresh) : key \in {"a", "label"}}
              \cup {[h EXCEPT ![a].props = DelProp(@, "a")]}
         [] o.k = "date" -> {[h EXCEPT ![a].time = @ + 1]}
         [] OTHER -> {}

----------------------------------------------------------------------------
(* The inputs.                                                             *)

\* Every heap starts with Date.prototype.getTime at address getTimeFn.
Heap0 == <<FuncObj("getTime", FALSE)>>

Scalars ==
    {Undefined, Null, Bool(FALSE), Bool(TRUE), Num(0), Num(1), Str(""),
     Str("x")}

\* What an array of the inputs holds in a slot, and the own properties it
\* may carry besides: none, a named one, one under a numeric name.
SlotValues == {Str("x"), TObject(<<Prop("a", Num(1))>>)}
ArrayProps ==
    {<<>>, <<Prop("foo", TObject(<<Prop("a", Str("bar"))>>))>>,
     <<Prop("-1", Str("x"))>>}

\* The arrays of at most MaxLen slots, each slot a hole or a value.
Arrays ==
    {TArray(len, elems, props) :
        len \in 0..MaxLen,
        elems \in UNION {[S -> SlotValues] : S \in SUBSET (0..(MaxLen - 1))},
        props \in ArrayProps}

InputArrays == {a \in Arrays : \A i \in DOMAIN a.elems : i < a.len}

\* {a: {b: {c: {d: "value"}}}}, the README's example.
Nested ==
    TObject(<<Prop("a", TObject(<<Prop("b", TObject(<<Prop("c",
        TObject(<<Prop("d", Str("value"))>>))>>))>>))>>)

ObjectValues ==
    {Num(1), Num(0), TDate(5), TFunc("f"),
     TArray(1, [i \in {0} |-> Str("x")], <<>>),
     TObject(<<Prop("a", Str("value"))>>)}

\* The plain objects over the keys a and b.
InputObjects ==
    {TObject(<<>>)}
    \cup {TObject(<<Prop(key, v)>>) : key \in {"a", "b"}, v \in ObjectValues}
    \cup {TObject(<<Prop("a", v), Prop("b", w)>>) :
            v \in ObjectValues, w \in ObjectValues}

Inputs ==
    Scalars \cup {TDate(5), TFunc("f"), Nested} \cup InputArrays
    \cup InputObjects

----------------------------------------------------------------------------
(* A caller of clone: it builds a value, clones it, and then mutates what  *)
(* it reaches from the original or from the clone.                         *)

Idle ==
    /\ cand = Undefined /\ idKey = Undefined /\ snapCand = Undefined
    /\ cur = Undefined /\ chain = <<>> /\ uw = Undefined
    /\ snapUw = Undefined /\ rewrapped = Undefined /\ calls = 0 /\ ret = <<>>

InitClone ==
    \E tree \in Inputs :
        LET b == Build(Heap0, tree)
        IN /\ heap = b.h
           /\ arg = b.v
           /\ pc = "start"
           /\ out = Undefined
           /\ raised = FALSE
           /\ snapArg = Snap(b.h, b.v)
           /\ snapOut = Undefined
           /\ touched = {}
           /\ muts = 0
           /\ Idle

\* const out = clone(arg)
Clone ==
    /\ pc = "start"
    /\ LET r == clone(heap, arg)
       IN /\ heap' = r.h
          /\ out' = r.v
          /\ raised' = r.err
          /\ snapArg' = Snap(r.h, arg)
          /\ snapOut' = Snap(r.h, r.v)
    /\ pc' = "clone"
    /\ UNCHANGED <<arg, cand, idKey, snapCand, touched, muts, cur, chain, uw,
                   snapUw, rewrapped, calls, ret>>

\* The caller mutates an object it reaches from the argument it passed.
MutateArg ==
    /\ pc # "start"
    /\ muts < MaxMut
    /\ \E a \in Reach(heap, arg) : \E h \in Mutations(heap, a) :
          /\ heap' = h
          /\ snapArg' = Snap(h, arg)
    /\ touched' = touched \cup {"arg"}
    /\ muts' = muts + 1
    /\ UNCHANGED <<pc, arg, cand, idKey, out, raised, snapCand, snapOut, cur,
                   chain, uw, snapUw, rewrapped, calls, ret>>

\* The caller mutates an object it reaches from the value it got back.
MutateOut ==
    /\ pc # "start"
    /\ muts < MaxMut
    /\ \E a \in Reach(heap, out) : \E h \in Mutations(heap, a) :
          /\ heap' = h
          /\ snapOut' = Snap(h, out)
    /\ touched' = touched \cup {"out"}
    /\ muts' = muts + 1
    /\ UNCHANGED <<pc, arg, cand, idKey, out, raised, snapArg, snapCand, cur,
                   chain, uw, snapUw, rewrapped, calls, ret>>

NextClone == Clone \/ MutateArg \/ MutateOut

SpecClone == InitClone /\ [][NextClone]_vars

----------------------------------------------------------------------------
(* Claims about clone.                                                     *)

\* The arrays, plain objects and Dates among the objects reached from v.
Containers(h, v) ==
    {a \in Reach(h, v) : h[a].k \in {"array", "object", "date"}}

\* A value without what bind adds to a function: the category and the
\* contents at every level, a callable by the function it runs.
RECURSIVE Shape(_)
Shape(s) ==
    CASE s.t = "array" ->
            [t |-> "array", len |-> s.len,
             idx |-> [i \in DOMAIN s.idx |-> Shape(s.idx[i])],
             p |-> [key \in DOMAIN s.p |-> Shape(s.p[key])]]
      [] s.t = "object" ->
            [t |-> "object", p |-> [key \in DOMAIN s.p |-> Shape(s.p[key])]]
      [] s.t = "function" -> [t |-> "function", f |-> s.f]
      [] OTHER -> s

\* No array in the value has a hole or an own property under a numeric
\* name.
RECURSIVE Dense(_)
Dense(s) ==
    CASE s.t = "array" ->
            /\ DOMAIN s.idx = 0..(s.len - 1)
            /\ \A key \in DOMAIN s.p : isNaN(key) /\ Dense(s.p[key])
            /\ \A i \in DOMAIN s.idx : Dense(s.idx[i])
      [] s.t = "object" -> \A key \in DOMAIN s.p : Dense(s.p[key])
      [] OTHER -> TRUE

\* C1: for a container v, clone(v) shares no array, plain object or Date
\* with v: whatever the caller then does to what it reaches from the clone
\* leaves the value of v as the caller left it, and whatever it does to
\* what it reaches from v leaves the value of the clone as the caller left
\* it.
C1_NoAliasing ==
    (pc = "clone" /\ IsRef(arg)) =>
        /\ ~raised
        /\ Containers(heap, arg) \cap Containers(heap, out) = {}
        /\ Snap(heap, arg) = snapArg
        /\ Snap(heap, out) = snapOut

\* C1's case: a nested container cloned, the clone mutated and the
\* original not, so that the two now differ.
C1_Witness ==
    /\ pc = "clone"
    /\ touched = {"out"}
    /\ muts = MaxMut
    /\ Cardinality(Containers(heap, arg)) >= 2
    /\ Shape(Snap(heap, out)) # Shape(Snap(heap, arg))

\* C2: clone(v) is structurally equal to v when clone returns: the same
\* category, keys, indices and length at every level, equal leaves.
C2_StructurallyEqual ==
    (pc = "clone" /\ muts = 0) => Shape(snapOut) = Shape(snapArg)

\* C2 on the values without holes and numeric names: there it holds.
C2_OnDense ==
    (pc = "clone" /\ muts = 0 /\ Dense(snapArg)) =>
        Shape(snapOut) = Shape(snapArg)

C2_OnDenseWitness ==
    /\ pc = "clone" /\ muts = 0 /\ Dense(snapArg)
    /\ snapArg.t = "array" /\ snapArg.len = MaxLen
    /\ "foo" \in DOMAIN snapArg.p

\* C3: the clone of an array, sparse or with own named properties, carries
\* a clone of every slot under the same index and of every named property
\* under the same name.
C3_KeysPreserved ==
    (pc = "clone" /\ muts = 0 /\ snapArg.t = "array") =>
        /\ snapOut.t = "array"
        /\ \A i \in DOMAIN snapArg.idx :
              i \in DOMAIN snapOut.idx
              /\ Shape(snapOut.idx[i]) = Shape(snapArg.idx[i])
        /\ \A key \in DOMAIN snapArg.p :
              key \in DOMAIN snapOut.p
              /\ Shape(snapOut.p[key]) = Shape(snapArg.p[key])
        /\ DOMAIN snapOut.idx = DOMAIN snapArg.idx
        /\ DOMAIN snapOut.p = DOMAIN snapArg.p

----------------------------------------------------------------------------
(* A caller of safeWrap: it wraps a value, navigates the wrapper key by    *)
(* key, unwraps where it stands, mutates what it reaches from its          *)
(* argument or from a value unwrap gave it, and may hand a wrapper back to *)
(* safeWrap.                                                               *)

\* What s[key] is on a plain value: the own property, the length of an
\* array, the inherited getTime of a Date, undefined for a hole, a key
\* that is not there and any key of a primitive.
RawGet(s, key) ==
    CASE s.t = "array" /\ IsIndexName(key) ->
            IF IndexOf(key) \in DOMAIN s.idx THEN s.idx[IndexOf(key)]
            ELSE Undefined
      [] s.t = "array" /\ key = "length" -> Num(s.len)
      [] s.t \in {"array", "object"} ->
            IF key \in DOMAIN s.p THEN s.p[key] ELSE Undefined
      [] s.t = "date" /\ key = "getTime" ->
            [t |-> "function", f |-> "getTime", bound |-> FALSE]
      [] OTHER -> Undefined

\* Whether key is an own key of the container s.
Own(s, key) ==
    CASE s.t = "array" ->
            \/ IsIndexName(key) /\ IndexOf(key) \in DOMAIN s.idx
            \/ key = "length"
            \/ key \in DOMAIN s.p
      [] s.t = "object" -> key \in DOMAIN s.p
      [] OTHER -> FALSE

\* Whether s has a property key, own or inherited.
Exists(s, key) == Own(s, key) \/ (s.t = "date" /\ key = "getTime")

\* The value at the end of a chain of keys through a plain value.
RECURSIVE Follow(_, _)
Follow(s, keys) ==
    IF keys = <<>> THEN s ELSE Follow(RawGet(s, Head(keys)), Tail(keys))

\* Every key of the chain is an own key of the container reached so far.
RECURSIVE AllOwn(_, _)
AllOwn(s, keys) ==
    keys = <<>>
    \/ (Own(s, Head(keys)) /\ AllOwn(RawGet(s, Head(keys)), Tail(keys)))

\* Some key of the chain does not exist on the value reached so far.
RECURSIVE SomeMissing(_, _)
SomeMissing(s, keys) ==
    keys # <<>>
    /\ (~Exists(s, Head(keys))
        \/ SomeMissing(RawGet(s, Head(keys)), Tail(keys)))

\* The keys a value has at its top: the indices below an array's length
\* (holes too), its named properties and length; getTime for a Date.
TopKeys(s) ==
    CASE s.t = "array" ->
            {IndexName(i) : i \in 0..(s.len - 1)} \cup DOMAIN s.p \cup {"length"}
      [] s.t = "object" -> DOMAIN s.p
      [] s.t = "date" -> {"getTime"}
      [] OTHER -> {}

\* The keys the caller navigates by from where it stands: every key of
\* the value cur denotes, every key of the value the same chain reaches in
\* its argument, and one that is on neither.
NavKeys ==
    LET u == unwrap(heap, cur)
    IN (IF u.err THEN {} ELSE TopKeys(Snap(u.h, u.v)))
       \cup TopKeys(Follow(snapArg, chain))
       \cup {"missing"}

\* The values wrapped: the primitives, a Date, a function, the README's
\* example, the arrays of MaxLen slots that hold "x" after the first slot
\* (a hole, "x" or an object), and the objects of one key or with b: 0.
WrapInputs ==
    Scalars \cup {TDate(5), TFunc("f"), Nested}
    \cup {a \in InputArrays :
            /\ a.len = MaxLen
            /\ \A i \in 1..(a.len - 1) :
                  i \in DOMAIN a.elems /\ a.elems[i] = Str("x")}
    \cup {o \in InputObjects :
            Len(o.props) <= 1 \/ o.props[2].v = Num(0)}

InitWrap ==
    \E tree \in WrapInputs :
        LET b == Build(Heap0, tree)
        IN /\ heap = b.h
           /\ arg = b.v
           /\ pc = "start"
           /\ out = Undefined
           /\ raised = FALSE
           /\ snapArg = Snap(b.h, b.v)
           /\ snapOut = Undefined
           /\ touched = {}
           /\ muts = 0
           /\ Idle

\* const out = safeWrap(arg)
SafeWrap ==
    /\ pc = "start"
    /\ LET r == safeWrap(heap, arg)
           u == unwrap(r.h, r.v)
       IN /\ heap' = r.h
          /\ out' = r.v
          /\ cur' = r.v
          /\ raised' = r.err
          /\ snapOut' = IF r.err \/ u.err THEN Undefined ELSE Snap(u.h, u.v)
    /\ pc' = "safeWrap"
    /\ UNCHANGED <<arg, cand, idKey, snapArg, snapCand, touched, muts, chain,
                   uw, snapUw, rewrapped, calls, ret>>

\* cur = cur[key]
Navigate ==
    /\ pc \in {"safeWrap", "navigate", "unwrap", "mutate"}
    /\ ~raised
    /\ Len(chain) + muts < MaxSteps
    /\ \E key \in NavKeys :
          LET r == Get(heap, cur, key)
          IN /\ heap' = r.h
             /\ cur' = r.v
             /\ raised' = r.err
             /\ chain' = Append(chain, key)
    /\ uw' = Undefined
    /\ snapUw' = Undefined
    /\ pc' = "navigate"
    /\ UNCHANGED <<arg, cand, idKey, out, snapArg, snapCand, snapOut, touched,
                   muts, rewrapped, calls, ret>>

\* uw = unwrap(cur)
Unwrap ==
    /\ pc \in {"safeWrap", "navigate", "mutate"}
    /\ ~raised
    /\ LET r == unwrap(heap, cur)
       IN /\ heap' = r.h
          /\ uw' = r.v
          /\ raised' = r.err
          /\ snapUw' = Snap(r.h, r.v)
    /\ pc' = "unwrap"
    /\ UNCHANGED <<arg, cand, idKey, out, snapArg, snapCand, snapOut, touched,
                   muts, cur, chain, rewrapped, calls, ret>>

\* The caller mutates an object it reaches from the argument it wrapped.
MutateWrapped ==
    /\ pc \in {"safeWrap", "navigate", "unwrap", "mutate"}
    /\ muts < MaxMut
    /\ Len(chain) + muts < MaxSteps
    /\ \E a \in Reach(heap, arg) : \E h \in Mutations(heap, a) :
          /\ heap' = h
          /\ snapArg' = Snap(h, arg)
    /\ touched' = touched \cup {"arg"}
    /\ muts' = muts + 1
    /\ pc' = "mutate"
    /\ UNCHANGED <<arg, cand, idKey, out, raised, snapCand, snapOut, cur,
                   chain, uw, snapUw, rewrapped, calls, ret>>

\* The caller mutates an object it reaches from what unwrap returned.
MutateUnwrapped ==
    /\ pc \in {"unwrap", "mutate"}
    /\ muts < MaxMut
    /\ Len(chain) + muts < MaxSteps
    /\ \E a \in Reach(heap, uw) : \E h \in Mutations(heap, a) :
          /\ heap' = h
          /\ snapUw' = Snap(h, uw)
    /\ touched' = touched \cup {"out"}
    /\ muts' = muts + 1
    /\ pc' = "mutate"
    /\ UNCHANGED <<arg, cand, idKey, out, raised, snapArg, snapCand, snapOut,
                   cur, chain, uw, rewrapped, calls, ret>>

\* rewrapped = safeWrap(cur)
Rewrap ==
    /\ pc \in {"safeWrap", "navigate"}
    /\ ~raised
    /\ LET r == safeWrap(heap, cur)
       IN /\ heap' = r.h
          /\ rewrapped' = r.v
          /\ raised' = r.err
    /\ pc' = "rewrap"
    /\ UNCHANGED <<arg, cand, idKey, out, snapArg, snapCand, snapOut, touched,
                   muts, cur, chain, uw, snapUw, calls, ret>>

NextWrap ==
    SafeWrap \/ Navigate \/ Unwrap \/ MutateWrapped \/ MutateUnwrapped
    \/ Rewrap

SpecWrap == InitWrap /\ [][NextWrap]_vars

----------------------------------------------------------------------------
(* Claims about safeWrap and unwrap.                                       *)

IsWrapper(h, v) == IsRef(v) /\ h[v.a].k = "proxy"

\* C4: on a wrapper obtained from safeWrap, the access w[key] never throws
\* and yields a wrapper, whether or not the key exists, at every step of a
\* chain; unwrap does not throw either.
C4_NeverRaises ==
    (pc \in {"safeWrap", "navigate", "unwrap", "mutate"}) =>
        ~raised /\ IsWrapper(heap, cur)

\* C4's case: a chain of MaxSteps keys, one of them missing on the value
\* reached, navigated to its end.
C4_Witness ==
    /\ pc = "navigate"
    /\ Len(chain) = MaxSteps
    /\ SomeMissing(snapArg, chain)
    /\ IsRef(arg)
    /\ IsWrapper(heap, cur)

\* C5: unwrap(safeWrap(v).k1...kn) is the value the chain finds in v when
\* every key is an own key of the container reached so far, and undefined
\* when some key does not exist on the value reached so far.
C5_UnwrapFollows ==
    (pc = "unwrap" /\ touched = {}) =>
        /\ AllOwn(snapArg, chain) =>
                Shape(snapUw) = Shape(Follow(snapArg, chain))
        /\ SomeMissing(snapArg, chain) => snapUw = Undefined

\* C5 on the values without holes and numeric names: there it holds.
C5_OnDense ==
    (pc = "unwrap" /\ touched = {} /\ Dense(snapArg)) =>
        /\ ~raised
        /\ AllOwn(snapArg, chain) =>
                Shape(snapUw) = Shape(Follow(snapArg, chain))
        /\ SomeMissing(snapArg, chain) => snapUw = Undefined

C5_OnDenseWitness ==
    /\ pc = "unwrap" /\ touched = {} /\ Dense(snapArg)
    /\ Len(chain) = MaxSteps
    /\ AllOwn(snapArg, chain)
    /\ snapUw.t = "object"

\* C6: safeWrap of a wrapper returns that wrapper itself.
C6_Idempotent == (pc = "rewrap") => (~raised /\ rewrapped = cur)

\* C6, the weaker half: unwrap(safeWrap(w)) is value-equal to unwrap(w).
C6_SameValue ==
    (pc = "rewrap") =>
        /\ ~raised
        /\ LET a == unwrap(heap, rewrapped)
               b == unwrap(heap, cur)
           IN Shape(Snap(a.h, a.v)) = Shape(Snap(b.h, b.v))

\* C7: the wrapper and the caller's argument are isolated from each other:
\* no mutation of a value unwrap returned changes the argument, and no
\* mutation of the argument changes what unwrap returns, which is what the
\* chain finds in the value the wrapper denoted when safeWrap returned.
C7_Isolated ==
    (pc \in {"safeWrap", "navigate", "unwrap", "mutate", "rewrap"}) =>
        /\ Snap(heap, arg) = snapArg
        /\ Containers(heap, arg) \cap Containers(heap, uw) = {}
        /\ (pc = "unwrap" /\ "out" \notin touched) =>
                Shape(snapUw) = Shape(Follow(snapOut, chain))

\* C7's case: the caller has mutated a container that unwrap returned.
C7_Witness ==
    /\ pc = "mutate"
    /\ touched = {"out"}
    /\ IsRef(arg) /\ IsRef(uw)
    /\ Shape(snapUw) # Shape(Follow(snapOut, chain))
    /\ Shape(snapUw) # Shape(Follow(snapArg, chain))

\* C7's other case: the caller has mutated its argument after safeWrap
\* returned, so that the chain now finds something else in it than unwrap
\* returns.
C7_WitnessArg ==
    /\ pc = "unwrap"
    /\ touched = {"arg"}
    /\ Len(chain) >= 1
    /\ snapUw # Undefined
    /\ Shape(snapUw) # Shape(Follow(snapArg, chain))

----------------------------------------------------------------------------
(* A caller of updateIn and updateOrAppend: it builds a list of records    *)
(* and a candidate, and makes one of the two calls.                        *)

\* The values the identity attribute takes: two numbers, and a Date as the
\* container among them.
IdValues == {Num(0), Num(1), TDate(5)}

\* [ , "x"]
SparseTags == TArray(2, [i \in {1} |-> Str("x")], <<>>)

\* What a record of the list carries besides its id, after the test's
\* {uuid, label, value, date}.
RecordBodies ==
    {<<Prop("label", Str("foo"))>>,
     <<Prop("label", Str("bar")), Prop("date", Str(""))>>,
     <<Prop("label", Str("foo")), Prop("tags", SparseTags)>>}

\* What a candidate carries besides its id, after the test's
\* {uuid, label, value, attribute}.
CandidateBodies ==
    {<<Prop("label", Str("bar"))>>,
     <<Prop("label", Str("bar")), Prop("attribute", Str(""))>>,
     <<Prop("label", Str("quz")), Prop("tags", SparseTags)>>}

Records ==
    {TObject(<<Prop("id", id)>> \o body) :
        id \in IdValues, body \in RecordBodies}

\* The lists of at most MaxList records, and the absent list.
Lists ==
    {Undefined, Null}
    \cup {TArray(n, elems, <<>>) :
            n \in 0..MaxList,
            elems \in UNION {[0..(m - 1) -> Records] : m \in 0..MaxList}}

InputLists == {l \in Lists : IsLiteral(l) => DOMAIN l.elems = 0..(l.len - 1)}

Candidates ==
    {Undefined, Null}
    \cup {TObject(<<Prop("id", id)>> \o body) :
            id \in IdValues, body \in CandidateBodies}

\* The key argument: left out, or "label".
Keys == {Undefined, Str("label")}

InitUpsert ==
    \E list \in InputLists, candidate \in Candidates, key \in Keys :
        LET l == Build(Heap0, list)
            c == Build(l.h, candidate)
        IN /\ heap = c.h
           /\ arg = l.v
           /\ cand = c.v
           /\ idKey = key
           /\ pc = "start"
           /\ out = Undefined
           /\ raised = FALSE
           /\ snapArg = Snap(c.h, l.v)
           /\ snapCand = Snap(c.h, c.v)
           /\ snapOut = Undefined
           /\ touched = {}
           /\ muts = 0
           /\ cur = Undefined /\ chain = <<>> /\ uw = Undefined
           /\ snapUw = Undefined /\ rewrapped = Undefined
           /\ calls = 0 /\ ret = <<>>

\* The call made has returned r (or thrown).
Returned(r, call) ==
    /\ heap' = r.h
    /\ out' = r.v
    /\ raised' = r.err
    /\ snapArg' = Snap(r.h, arg)
    /\ snapCand' = Snap(r.h, cand)
    /\ snapOut' = Snap(r.h, r.v)
    /\ pc' = call
    /\ calls' = calls + 1
    /\ UNCHANGED <<arg, cand, idKey, touched, muts, cur, chain, uw, snapUw,
                   rewrapped, ret>>

\* const out = updateIn(arg, cand, idKey)
UpdateIn ==
    /\ pc = "start"
    /\ Returned(updateIn(heap, arg, cand, idKey), "updateIn")

\* const out = updateOrAppend(arg, cand, idKey)
UpdateOrAppend ==
    /\ pc = "start"
    /\ Returned(updateOrAppend(heap, arg, cand, idKey), "updateOrAppend")

NextUpsert == UpdateIn \/ UpdateOrAppend

SpecUpsert == InitUpsert /\ [][NextUpsert]_vars

----------------------------------------------------------------------------
(* Claims about updateIn and updateOrAppend.                               *)

\* Two records carry the same identity: the values under key are equal as
\* values (two Dates of the same instant are).
SameKey(record, candidate, key) ==
    Shape(RawGet(record, key)) = Shape(RawGet(candidate, key))

\* The positions of the list whose record carries the candidate's identity.
Matching(list, candidate, key) ==
    {i \in DOMAIN list.idx : SameKey(list.idx[i], candidate, key)}

First(S) == CHOOSE i \in S : \A j \in S : i <= j

\* The overlay of the candidate on a record: the candidate's attributes
\* with the candidate's values, the record's other attributes as they were.
Overlay(record, candidate) ==
    [t |-> "object",
     p |-> [key \in DOMAIN record.p \cup DOMAIN candidate.p |->
              IF key \in DOMAIN candidate.p THEN candidate.p[key]
              ELSE record.p[key]]]

\* The candidate's identity is no array, plain object or Date.
ScalarKey(candidate, key) ==
    RawGet(candidate, key).t \notin {"array", "object", "date"}

\* The call was made on a list and a candidate that are both there.
Upserted(call) == pc = call /\ snapArg.t = "array" /\ snapCand.t = "object"

\* C8: when some record carries the candidate's identity, updateOrAppend
\* returns a list of the same length in which the first such record is the
\* overlay of the candidate on it and every other record is as it was.
C8_UpdatesFirstMatch ==
    (/\ Upserted("updateOrAppend")
     /\ Matching(snapArg, snapCand, DefaultKey(idKey)) # {}) =>
        /\ ~raised
        /\ snapOut.t = "array"
        /\ snapOut.len = snapArg.len
        /\ DOMAIN snapOut.idx = DOMAIN snapArg.idx
        /\ \A i \in DOMAIN snapArg.idx :
              Shape(snapOut.idx[i]) =
                  Shape(IF i = First(Matching(snapArg, snapCand,
                                              DefaultKey(idKey)))
                        THEN Overlay(snapArg.idx[i], snapCand)
                        ELSE snapArg.idx[i])

\* C8 where the identity is a scalar and no value has a hole or a numeric
\* name: there it holds.
C8_OnScalarKeys ==
    (/\ Upserted("updateOrAppend")
     /\ Matching(snapArg, snapCand, DefaultKey(idKey)) # {}
     /\ ScalarKey(snapCand, DefaultKey(idKey))
     /\ Dense(snapArg) /\ Dense(snapCand)) =>
        /\ ~raised
        /\ snapOut.t = "array"
        /\ snapOut.len = snapArg.len
        /\ DOMAIN snapOut.idx = DOMAIN snapArg.idx
        /\ \A i \in DOMAIN snapArg.idx :
              Shape(snapOut.idx[i]) =
                  Shape(IF i = First(Matching(snapArg, snapCand,
                                              DefaultKey(idKey)))
                        THEN Overlay(snapArg.idx[i], snapCand)
                        ELSE snapArg.idx[i])

\* Two records carry the candidate's scalar identity; the first took the
\* candidate's new attribute and kept its own, the second is as it was.
C8_OnScalarKeysWitness ==
    /\ Upserted("updateOrAppend")
    /\ Cardinality(Matching(snapArg, snapCand, DefaultKey(idKey))) = 2
    /\ ScalarKey(snapCand, DefaultKey(idKey))
    /\ Dense(snapArg) /\ Dense(snapCand)
    /\ "attribute" \in DOMAIN snapCand.p
    /\ \E i \in DOMAIN snapOut.idx :
          {"attribute", "date"} \subseteq DOMAIN snapOut.idx[i].p

\* C9: when no record carries the candidate's identity, updateOrAppend
\* returns a list one longer, the input's records in their order and then
\* a record value-equal to the candidate.
C9_AppendsWhenUnmatched ==
    (/\ Upserted("updateOrAppend")
     /\ Matching(snapArg, snapCand, DefaultKey(idKey)) = {}) =>
        /\ ~raised
        /\ snapOut.t = "array"
        /\ snapOut.len = snapArg.len + 1
        /\ DOMAIN snapOut.idx = 0..snapArg.len
        /\ \A i \in DOMAIN snapArg.idx :
              Shape(snapOut.idx[i]) = Shape(snapArg.idx[i])
        /\ Shape(snapOut.idx[snapArg.len]) = Shape(snapCand)

\* C9 where no value has a hole or a numeric name: there it holds.
C9_OnDense ==
    (/\ Upserted("updateOrAppend")
     /\ Matching(snapArg, snapCand, DefaultKey(idKey)) = {}
     /\ Dense(snapArg) /\ Dense(snapCand)) =>
        /\ ~raised
        /\ snapOut.t = "array"
        /\ snapOut.len = snapArg.len + 1
        /\ DOMAIN snapOut.idx = 0..snapArg.len
        /\ \A i \in DOMAIN snapArg.idx :
              Shape(snapOut.idx[i]) = Shape(snapArg.idx[i])
        /\ Shape(snapOut.idx[snapArg.len]) = Shape(snapCand)

C9_OnDenseWitness ==
    /\ Upserted("updateOrAppend")
    /\ Matching(snapArg, snapCand, DefaultKey(idKey)) = {}
    /\ Dense(snapArg) /\ Dense(snapCand)
    /\ snapArg.len = MaxList
    /\ snapOut.len = MaxList + 1

\* C10: the match is decided by the value of the identity: a record whose
\* identity is value-equal to the candidate's is matched (the list keeps
\* its length and the record takes the candidate's attributes), also when
\* the two identities are distinct containers, and the candidate is
\* appended only when no record's identity is value-equal to its own.
C10_MatchByValue ==
    (Upserted("updateIn") \/ Upserted("updateOrAppend")) =>
        /\ ~raised
        /\ Matching(snapArg, snapCand, DefaultKey(idKey)) # {} =>
              /\ snapOut.len = snapArg.len
              /\ DOMAIN snapCand.p \subseteq
                    DOMAIN snapOut.idx[First(Matching(snapArg, snapCand,
                                                      DefaultKey(idKey)))].p
        /\ (pc = "updateOrAppend"
            /\ Matching(snapArg, snapCand, DefaultKey(idKey)) = {}) =>
              snapOut.len = snapArg.len + 1

\* C10 where the candidate's identity is a scalar: there it holds.
C10_OnScalarKeys ==
    ((Upserted("updateIn") \/ Upserted("updateOrAppend"))
     /\ ScalarKey(snapCand, DefaultKey(idKey))) =>
        /\ ~raised
        /\ Matching(snapArg, snapCand, DefaultKey(idKey)) # {} =>
              /\ snapOut.len = snapArg.len
              /\ DOMAIN snapCand.p \subseteq
                    DOMAIN snapOut.idx[First(Matching(snapArg, snapCand,
                                                      DefaultKey(idKey)))].p
        /\ (pc = "updateOrAppend"
            /\ Matching(snapArg, snapCand, DefaultKey(idKey)) = {}) =>
              snapOut.len = snapArg.len + 1

C10_OnScalarKeysWitness ==
    /\ Upserted("updateIn")
    /\ ScalarKey(snapCand, DefaultKey(idKey))
    /\ idKey # Undefined
    /\ Matching(snapArg, snapCand, DefaultKey(idKey)) # {}
    /\ \E i \in DOMAIN snapArg.idx : snapArg.idx[i].p["id"].t = "date"

----------------------------------------------------------------------------
(* A caller that keeps a record list by updateOrAppend alone: it starts    *)
(* from no list or an empty one and hands each result back as the list of  *)
(* the next call, with a new candidate and the same key.                   *)

InitSeries ==
    /\ InitUpsert
    /\ snapArg.t = "array" => snapArg.len = 0
    /\ snapCand.t = "object"

\* The call on the last result has returned r (or thrown).
Chained(r, list, candidate) ==
    /\ heap' = r.h
    /\ arg' = list
    /\ cand' = candidate
    /\ out' = r.v
    /\ raised' = r.err
    /\ snapArg' = Snap(r.h, list)
    /\ snapCand' = Snap(r.h, candidate)
    /\ snapOut' = Snap(r.h, r.v)
    /\ calls' = calls + 1
    /\ UNCHANGED <<pc, idKey, touched, muts, cur, chain, uw, snapUw,
                   rewrapped, ret>>

\* out = updateOrAppend(out, c, idKey), c the candidate just built.
UpsertBuilt(c) ==
    Chained(updateOrAppend(c.h, out, c.v, idKey), out, c.v)

UpsertAgain ==
    /\ pc = "updateOrAppend"
    /\ ~raised
    /\ calls < MaxCalls
    /\ \E candidate \in {c \in Candidates : IsLiteral(c)} :
          UpsertBuilt(Build(heap, candidate))

NextSeries == UpdateOrAppend \/ UpsertAgain

SpecSeries == InitSeries /\ [][NextSeries]_vars

\* No two records of the list carry the same identity.
Unique(list, key) ==
    \A i \in DOMAIN list.idx : \A j \in DOMAIN list.idx :
        SameKey(list.idx[i], list.idx[j], key) => i = j

\* C11: every list reached from no list or the empty list by updateOrAppend
\* calls with one key holds at most one record of any identity, and a call
\* on a list that holds the candidate's identity does not raise the number
\* of records that carry it.
C11_UniqueIdentity ==
    (pc = "updateOrAppend") =>
        /\ ~raised
        /\ Unique(snapOut, DefaultKey(idKey))
        /\ (snapArg.t = "array"
            /\ Matching(snapArg, snapCand, DefaultKey(idKey)) # {}) =>
              Cardinality(Matching(snapOut, snapCand, DefaultKey(idKey)))
                  <= Cardinality(Matching(snapArg, snapCand, DefaultKey(idKey)))

\* C11 where every identity in the list is a scalar: there it holds.
C11_OnScalarKeys ==
    (/\ pc = "updateOrAppend"
     /\ ~raised
     /\ \A i \in DOMAIN snapOut.idx :
           ScalarKey(snapOut.idx[i], DefaultKey(idKey))) =>
        /\ Unique(snapOut, DefaultKey(idKey))
        /\ (snapArg.t = "array"
            /\ Matching(snapArg, snapCand, DefaultKey(idKey)) # {}) =>
              Cardinality(Matching(snapOut, snapCand, DefaultKey(idKey)))
                  <= Cardinality(Matching(snapArg, snapCand, DefaultKey(idKey)))

\* A series of MaxCalls calls on scalar identities, one of them a merge.
C11_OnScalarKeysWitness ==
    /\ pc = "updateOrAppend"
    /\ calls = MaxCalls
    /\ snapOut.len = MaxCalls - 1
    /\ idKey = Undefined
    /\ \A i \in DOMAIN snapOut.idx : ScalarKey(snapOut.idx[i], "id")

----------------------------------------------------------------------------
(* A caller of updateIn and updateOrAppend that goes on to mutate what it  *)
(* reaches from the list it got back.                                      *)

\* Records with a nested container: a Date as the id, an array under tags.
FrameRecords ==
    {TObject(<<Prop("id", Num(0)), Prop("label", Str("foo"))>>),
     TObject(<<Prop("id", TDate(5)), Prop("label", Str("bar")),
               Prop("date", Str(""))>>),
     TObject(<<Prop("id", Num(1)), Prop("label", Str("foo")),
               Prop("tags", SparseTags)>>)}

\* The absent list and the lists of at most MaxList of these records.
FrameLists ==
    {Undefined}
    \cup UNION {{TArray(n, elems, <<>>) :
                    elems \in [0..(n - 1) -> FrameRecords]} : n \in 0..MaxList}

\* No candidate, one that merges into a record and brings an array, one
\* that is appended and brings a Date.
FrameCandidates ==
    {Undefined,
     TObject(<<Prop("id", Num(0)), Prop("label", Str("quz")),
               Prop("tags", SparseTags)>>),
     TObject(<<Prop("id", TDate(5)), Prop("label", Str("bar"))>>)}

InitFrame ==
    \E list \in FrameLists, candidate \in FrameCandidates :
        LET l == Build(Heap0, list)
            c == Build(l.h, candidate)
        IN /\ heap = c.h
           /\ arg = l.v
           /\ cand = c.v
           /\ idKey = Undefined
           /\ pc = "start"
           /\ out = Undefined
           /\ raised = FALSE
           /\ snapArg = Snap(c.h, l.v)
           /\ snapCand = Snap(c.h, c.v)
           /\ snapOut = Undefined
           /\ touched = {}
           /\ muts = 0
           /\ cur = Undefined /\ chain = <<>> /\ uw = Undefined
           /\ snapUw = Undefined /\ rewrapped = Undefined
           /\ calls = 0 /\ ret = <<>>

NextFrame == UpdateIn \/ UpdateOrAppend \/ MutateOut

SpecFrame == InitFrame /\ [][NextFrame]_vars

\* C12: updateIn and updateOrAppend leave the list and the candidate as
\* they were and return nothing that shares a container with them: over
\* the call, and over every later mutation of what the caller reaches from
\* the returned list, the values of the list and of the candidate stay the
\* same.
C12_ArgumentsUntouched ==
    [][/\ Snap(heap', arg') = Snap(heap, arg)
       /\ Snap(heap', cand') = Snap(heap, cand)
       /\ Containers(heap', out')
            \cap (Containers(heap', arg') \cup Containers(heap', cand')) = {}
      ]_vars

\* C12's case: the candidate was merged into a record, bringing its array,
\* and the caller has since changed that array in the returned list.
C12_Witness ==
    /\ pc = "updateOrAppend"
    /\ touched = {"out"}
    /\ muts = MaxMut
    /\ snapArg.t = "array" /\ snapCand.t = "object"
    /\ Matching(snapArg, snapCand, "id") # {}
    /\ \E i \in DOMAIN snapOut.idx :
          /\ snapOut.idx[i].t = "object"
          /\ "tags" \in DOMAIN snapOut.idx[i].p
          /\ "tags" \notin DOMAIN snapArg.idx[i].p
          /\ snapOut.idx[i].p["tags"].t = "array"
          /\ snapOut.idx[i].p["tags"].len # 1

\* C12's other case: the candidate was appended, and the caller has since
\* changed the Date of the appended record.
C12_WitnessAppended ==
    /\ pc = "updateOrAppend"
    /\ touched = {"out"}
    /\ snapArg.t = "array" /\ snapCand.t = "object"
    /\ snapOut.len = snapArg.len + 1
    /\ snapCand.p["id"].t = "date"
    /\ snapOut.idx[snapArg.len].t = "object"
    /\ snapOut.idx[snapArg.len].p["id"].t = "date"
    /\ snapOut.idx[snapArg.len].p["id"] # snapCand.p["id"]

----------------------------------------------------------------------------
(* updateOrAppend where the list or the candidate is left out.             *)

\* No list, or no candidate, was handed over.
Absent(s) == s.t \in {"undefined", "null"}

EmptyList == [t |-> "array", len |-> 0, idx |-> <<>>, p |-> <<>>]

ListOf(record) ==
    [t |-> "array", len |-> 1, idx |-> [i \in {0} |-> record], p |-> <<>>]

\* The value a call returned.
ValueOf(r) == Snap(r.h, r.v)

\* What updateOrAppend returns for the caller's candidate and key on a
\* list the caller has just built.
OnBuilt(b, candidate, key) == ValueOf(updateOrAppend(b.h, b.v, candidate, key))

\* C13: updateOrAppend never raises for a record list or none and a
\* candidate or none; without a list it returns what it returns for the
\* empty list, a one-record list value-equal to [candidate] when there is
\* a candidate; without a candidate it returns a list value-equal to the
\* list it was given, nothing merged and nothing appended.
C13_AbsentHandled ==
    pc = "updateOrAppend" =>
        /\ ~raised
        /\ Absent(snapArg) =>
              /\ Shape(snapOut) =
                    Shape(OnBuilt(Build(heap, TArray(0, <<>>, <<>>)),
                                  cand, idKey))
              /\ ~Absent(snapCand) => Shape(snapOut) = Shape(ListOf(snapCand))
        /\ Absent(snapCand) =>
              Shape(snapOut) =
                  Shape(IF Absent(snapArg) THEN EmptyList ELSE snapArg)

\* C13 where no value has a hole or a numeric name: there it holds.
C13_OnDense ==
    (pc = "updateOrAppend" /\ Dense(snapArg) /\ Dense(snapCand)) =>
        /\ ~raised
        /\ Absent(snapArg) =>
              /\ Shape(snapOut) =
                    Shape(OnBuilt(Build(heap, TArray(0, <<>>, <<>>)),
                                  cand, idKey))
              /\ ~Absent(snapCand) => Shape(snapOut) = Shape(ListOf(snapCand))
        /\ Absent(snapCand) =>
              Shape(snapOut) =
                  Shape(IF Absent(snapArg) THEN EmptyList ELSE snapArg)

\* No list and a candidate with a Date: a list of one record came back.
C13_OnDenseWitness ==
    /\ pc = "updateOrAppend"
    /\ snapArg = Null
    /\ snapCand.t = "object" /\ Dense(snapCand)
    /\ snapCand.p["id"].t = "date"
    /\ snapOut.t = "array" /\ snapOut.len = 1

\* A full list with a Date and no candidate: the list came back.
C13_OnDenseWitnessNoCandidate ==
    /\ pc = "updateOrAppend"
    /\ snapCand = Undefined
    /\ snapArg.t = "array" /\ Dense(snapArg) /\ snapArg.len = MaxList
    /\ \E i \in DOMAIN snapArg.idx : snapArg.idx[i].p["id"].t = "date"
    /\ snapOut.t = "array" /\ snapOut.len = MaxList

----------------------------------------------------------------------------
(* A caller of clone that calls what it handed over and what it got back,  *)
(* when that is a function, with a receiver and an argument of its choice. *)

\* this at the top of the module, which the arrow function clone closes
\* over and binds every function to: an object no caller holds.
moduleThis == [t |-> "exports"]

\* The receiver the body of a function object runs with.
ThisOf(o, receiver) == IF o.bound THEN moduleThis ELSE receiver

\* fn.call(receiver, argument), by the body of the function:
\*   f        () => 'bar', the test's
\*   echo     (x) => x
\*   notA     (key) => key !== 'a', after the test's key !== 'baz'
\*   self     function () { return this; }
\*   getTime  Date.prototype.getTime, a TypeError when this is no Date
Invoke(h, fn, receiver, argument) ==
    LET o == h[fn.a]
    IN CASE o.f = "f" -> Ok(h, Str("bar"))
         [] o.f = "echo" -> Ok(h, argument)
         [] o.f = "notA" -> Ok(h, Bool(argument # Str("a")))
         [] o.f = "self" -> Ok(h, ThisOf(o, receiver))
         [] o.f = "getTime" ->
                IF IsRef(ThisOf(o, receiver))
                   /\ h[ThisOf(o, receiver).a].k = "date"
                THEN Ok(h, Num(h[ThisOf(o, receiver).a].time))
                ELSE Throw(h)

\* A value of a category clone has no branch for.
Symbol == [t |-> "symbol", d |-> "s"]

\* What the caller clones: the inputs of before, a symbol, two more
\* functions of its own and the getTime it read from a Date.
CallInputs ==
    Inputs \cup {Symbol, TFunc("echo"), TFunc("self"), Ref(getTimeFn)}

Receivers == {Undefined, Num(1), TDate(5), TObject(<<Prop("a", Num(1))>>)}
Arguments == {Undefined, Str("x")}

InitCall ==
    \E tree \in CallInputs :
        LET b == Build(Heap0, tree)
        IN /\ heap = b.h
           /\ arg = b.v
           /\ pc = "start"
           /\ out = Undefined
           /\ raised = FALSE
           /\ snapArg = Snap(b.h, b.v)
           /\ snapOut = Undefined
           /\ touched = {}
           /\ muts = 0
           /\ Idle

\* What a call came to: the value returned, or that it threw.
Outcome(r) == [v |-> r.v, err |-> r.err]

\* The caller has built the receiver b.v and calls arg and out with it and
\* the argument x.
Called(b, x) ==
    /\ heap' = b.h
    /\ ret' = [receiver |-> b.v, argument |-> x,
               original |-> Outcome(Invoke(b.h, arg, b.v, x)),
               clone |-> Outcome(Invoke(b.h, out, b.v, x))]
    /\ pc' = "call"
    /\ UNCHANGED <<arg, cand, idKey, out, raised, snapArg, snapCand, snapOut,
                   touched, muts, cur, chain, uw, snapUw, rewrapped, calls>>

\* arg.call(receiver, x) and out.call(receiver, x)
Call ==
    /\ pc = "clone"
    /\ ~raised
    /\ TypeOf(heap, arg) = "function"
    /\ TypeOf(heap, out) = "function"
    /\ \E tree \in Receivers, x \in Arguments : Called(Build(heap, tree), x)

NextCall == Clone \/ Call

SpecCall == InitCall /\ [][NextCall]_vars

\* C14: for a boolean, a number, a string, null, undefined or a value of
\* an unrecognized category clone does not raise and returns the input
\* itself; for a function it does not raise and returns a function which,
\* called with any receiver and argument, does what the original does when
\* called the same way.
C14_TotalOnNonContainers ==
    /\ (pc \in {"clone", "call"} /\ ~IsRef(arg)) =>
          /\ ~raised
          /\ out = arg
    /\ (pc \in {"clone", "call"} /\ TypeOf(heap, arg) = "function") =>
          /\ ~raised
          /\ TypeOf(heap, out) = "function"
    /\ pc = "call" => ret.clone = ret.original

\* C14 for the functions whose body does not read this: there it holds.
C14_OnReceiverFree ==
    /\ (pc \in {"clone", "call"} /\ ~IsRef(arg)) =>
          /\ ~raised
          /\ out = arg
    /\ (pc \in {"clone", "call"} /\ TypeOf(heap, arg) = "function") =>
          /\ ~raised
          /\ TypeOf(heap, out) = "function"
    /\ (pc = "call" /\ heap[arg.a].f \in {"f", "echo"}) =>
          ret.clone = ret.original

\* The clone of (x) => x, called with an object as the receiver, gave back
\* its argument.
C14_OnReceiverFreeWitness ==
    /\ pc = "call"
    /\ heap[arg.a].f = "echo"
    /\ out # arg
    /\ IsRef(ret.receiver)
    /\ ret.clone = [v |-> Str("x"), err |-> FALSE]

\* The symbol came back from clone as it was.
C14_OnReceiverFreeWitnessSymbol ==
    pc = "clone" /\ arg = Symbol /\ out = Symbol

----------------------------------------------------------------------------
(* updateIn against updateOrAppend.                                        *)

\* The list a call works on: the one given, the empty one when none is.
ListGiven(s) == IF Absent(s) THEN EmptyList ELSE s

\* Some record of the list given carries the candidate's identity.
Matched(list, candidate, key) ==
    /\ ~Absent(list)
    /\ ~Absent(candidate)
    /\ Matching(list, candidate, DefaultKey(key)) # {}

\* C15: updateIn returns a list as long as the one it was given; it is
\* value-equal to that list when there is no candidate or no record
\* carries the candidate's identity, and it is the list updateOrAppend
\* returns for the same arguments when a record does.
C15_UpdatesNeverAppends ==
    pc = "updateIn" =>
        /\ ~raised
        /\ snapOut.t = "array"
        /\ snapOut.len = ListGiven(snapArg).len
        /\ ~Matched(snapArg, snapCand, idKey) =>
              Shape(snapOut) = Shape(ListGiven(snapArg))
        /\ Matched(snapArg, snapCand, idKey) =>
              Shape(snapOut) =
                  Shape(ValueOf(updateOrAppend(heap, arg, cand, idKey)))

\* C15 where the identity is a scalar and no value has a hole or a numeric
\* name: there it holds.
C15_OnScalarKeys ==
    (/\ pc = "updateIn"
     /\ Dense(snapArg) /\ Dense(snapCand)
     /\ Absent(snapCand) \/ ScalarKey(snapCand, DefaultKey(idKey))) =>
        /\ ~raised
        /\ snapOut.t = "array"
        /\ snapOut.len = ListGiven(snapArg).len
        /\ ~Matched(snapArg, snapCand, idKey) =>
              Shape(snapOut) = Shape(ListGiven(snapArg))
        /\ Matched(snapArg, snapCand, idKey) =>
              Shape(snapOut) =
                  Shape(ValueOf(updateOrAppend(heap, arg, cand, idKey)))

\* A record matched on a scalar identity and merged by updateIn.
C15_OnScalarKeysWitness ==
    /\ pc = "updateIn"
    /\ Dense(snapArg) /\ Dense(snapCand)
    /\ Matched(snapArg, snapCand, idKey)
    /\ ScalarKey(snapCand, DefaultKey(idKey))
    /\ snapArg.len = MaxList
    /\ Shape(snapOut) # Shape(snapArg)

\* No record with the candidate's scalar identity: the list came back as
\* long as it was.
C15_OnScalarKeysWitnessUnmatched ==
    /\ pc = "updateIn"
    /\ Dense(snapArg) /\ Dense(snapCand)
    /\ ~Absent(snapArg) /\ ~Absent(snapCand)
    /\ ~Matched(snapArg, snapCand, idKey)
    /\ snapArg.len = MaxList
    /\ \E i \in DOMAIN snapArg.idx : snapArg.idx[i].p["id"].t = "date"
    /\ snapOut.len = MaxList

----------------------------------------------------------------------------
(* toArray and toObject.                                                   *)

\* Date.prototype.toString() counts in seconds: every instant of the model
\* lies within the first second and reads the same.
DateString(time) == "Thu Jan 01 1970 00:00:00 GMT+0000"

RECURSIVE String(_, _)
RECURSIVE Join(_, _, _)

\* Array.prototype.join: the elements' strings with commas between them,
\* the empty string for a hole, undefined and null.
Join(h, a, i) ==
    IF i >= h[a].len THEN ""
    ELSE (IF i = 0 THEN "" ELSE ",")
         \o (IF i \in DOMAIN h[a].elems
                /\ h[a].elems[i].t \notin {"undefined", "null"}
             THEN String(h, h[a].elems[i]) ELSE "")
         \o Join(h, a, i + 1)

\* String(v)
String(h, v) ==
    CASE v.t = "string" -> v.s
      [] v.t = "number" -> IndexName(v.n)
      [] v.t = "boolean" -> IF v.b THEN "true" ELSE "false"
      [] v.t = "undefined" -> "undefined"
      [] v.t = "null" -> "null"
      [] IsRef(v) /\ h[v.a].k = "array" -> Join(h, v.a, 0)
      [] IsRef(v) /\ h[v.a].k = "date" -> DateString(h[v.a].time)
      [] IsRef(v) /\ h[v.a].k = "function" -> "function " \o h[v.a].f
      [] OTHER -> "[object Object]"

\* mapper ? mapper(value, i) : value, a TypeError when mapper is no
\* function.  (No function of the model reads its second argument.)
Mapped(h, mapper, value) ==
    IF ~Truthy(mapper) THEN Ok(h, value)
    ELSE IF TypeOf(h, mapper) = "function" /\ h[mapper.a].k = "function"
    THEN Invoke(h, mapper, Undefined, value)
    ELSE Throw(h)

\* The array that map returns for the results elems.
MappedArray(h, elems) ==
    Alloc(h, ArrayObj(Len(elems),
                      [i \in 0..(Len(elems) - 1) |-> elems[i + 1]], <<>>))

Allocated(o) == Ok(o.h, Ref(o.a))

RECURSIVE MapKeys(_, _, _, _, _)
RECURSIVE MapKey(_, _, _, _, _)
RECURSIVE MapValue(_, _, _, _, _)

\* Object.keys(object).map(...): the callback on the keys left.
MapKeys(h, object, mapper, keys, elems) ==
    IF keys = <<>> THEN Allocated(MappedArray(h, elems))
    ELSE MapKey(Get(h, object, Head(keys)), object, mapper, keys, elems)

\* object[key] was read.
MapKey(g, object, mapper, keys, elems) ==
    IF g.err THEN g
    ELSE MapValue(Mapped(g.h, mapper, g.v), object, mapper, keys, elems)

\* The callback has returned for the first of keys.
MapValue(m, object, mapper, keys, elems) ==
    IF m.err THEN m
    ELSE MapKeys(m.h, object, mapper, Tail(keys), Append(elems, m.v))

toArray(h, object, mapper) ==
    LET isObject == TypeOf(h, object) = "object" /\ object.t # "null"
    IN IF ~isObject THEN Throw(h)
       ELSE MapKeys(h, object, mapper, ObjectKeys(h, object.a), <<>>)

\* key ? String(currentValue[key]) : String(i)
Named(g) == IF g.err THEN g ELSE Ok(g.h, Str(String(g.h, g.v)))

NameFor(h, currentValue, key, i) ==
    IF Truthy(key) THEN Named(Get(h, currentValue, String(h, key)))
    ELSE Ok(h, Str(String(h, Num(i))))

RECURSIVE Reduce(_, _, _, _, _, _)
RECURSIVE ReduceValue(_, _, _, _, _, _)
RECURSIVE ReduceName(_, _, _, _, _, _, _)
RECURSIVE ReduceStore(_, _, _, _, _, _, _)

\* array.reduce(..., {}): the callback on the present indices left, the
\* accumulator at address accumulator.
Reduce(h, accumulator, array, key, mapper, indices) ==
    IF indices = <<>> THEN Ok(h, Ref(accumulator))
    ELSE ReduceValue(Get(h, array, IndexName(Head(indices))), accumulator,
                     array, key, mapper, indices)

\* currentValue was read.
ReduceValue(g, accumulator, array, key, mapper, indices) ==
    IF g.err THEN g
    ELSE ReduceName(NameFor(g.h, g.v, key, Head(indices)), g.v, accumulator,
                    array, key, mapper, indices)

\* The name to store under was computed.
ReduceName(n, currentValue, accumulator, array, key, mapper, indices) ==
    IF n.err THEN n
    ELSE ReduceStore(Mapped(n.h, mapper, currentValue), n.v.s, accumulator,
                     array, key, mapper, indices)

\* accumulator[name] = what the mapper gave
ReduceStore(m, name, accumulator, array, key, mapper, indices) ==
    IF m.err THEN m
    ELSE Reduce(SetProp(m.h, accumulator, name, m.v), accumulator, array,
                key, mapper, Tail(indices))

\* The accumulator reduce starts with.
Reduced(o, array, key, mapper) ==
    Reduce(o.h, o.a, array, key, mapper,
           Ascending(DOMAIN o.h[TargetOf(o.h, array.a)].elems))

toObject(h, array, key, mapper) ==
    IF ~IsArray(h, array) THEN Throw(h)
    ELSE Reduced(Alloc(h, PlainObj(<<>>)), array, key, mapper)

----------------------------------------------------------------------------
(* A caller of toArray and toObject: it builds an argument and a mapper,   *)
(* if it wants one, and makes one of the two calls.                        *)

\* What the tests hand over: nothing, null, scalars, a Date, plain
\* objects, arrays, one of them with a hole, and lists of records.
ConvertInputs ==
    Scalars \cup {TDate(5), SparseTags} \cup InputObjects
    \cup (FrameLists \ {Undefined})

Mappers == {Undefined, TFunc("f"), TFunc("echo")}
ConvertKeys == {Undefined, Str("id")}

InitConvert ==
    \E tree \in ConvertInputs, mapper \in Mappers, key \in ConvertKeys :
        LET b == Build(Heap0, tree)
            f == Build(b.h, mapper)
        IN /\ heap = f.h
           /\ arg = b.v
           /\ cand = f.v
           /\ idKey = key
           /\ pc = "start"
           /\ out = Undefined
           /\ raised = FALSE
           /\ snapArg = Snap(f.h, b.v)
           /\ snapCand = Snap(f.h, f.v)
           /\ snapOut = Undefined
           /\ touched = {}
           /\ muts = 0
           /\ cur = Undefined /\ chain = <<>> /\ uw = Undefined
           /\ snapUw = Undefined /\ rewrapped = Undefined
           /\ calls = 0 /\ ret = <<>>

\* toArray(arg, cand)
ToArray ==
    /\ pc = "start"
    /\ Returned(toArray(heap, arg, cand), "toArray")

\* toObject(arg, idKey, cand)
ToObject ==
    /\ pc = "start"
    /\ Returned(toObject(heap, arg, idKey, cand), "toObject")

NextConvert == ToArray \/ ToObject

SpecConvert == InitConvert /\ [][NextConvert]_vars

\* C16: toArray raises for every argument that is no plain object (none,
\* a scalar, an array, a Date) and toObject raises for every argument that
\* is no array (none, a scalar, a plain object, a Date); neither returns
\* anything for such an argument.
C16_WrongShapeRejected ==
    /\ (pc = "toArray" /\ snapArg.t # "object") =>
          /\ raised
          /\ out = Undefined
    /\ (pc = "toObject" /\ snapArg.t # "array") =>
          /\ raised
          /\ out = Undefined

\* C16 without the arrays and the Dates handed to toArray: there it holds.
C16_OnNonObjects ==
    /\ (pc = "toArray" /\ snapArg.t \notin {"object", "array", "date"}) =>
          /\ raised
          /\ out = Undefined
    /\ (pc = "toObject" /\ snapArg.t # "array") =>
          /\ raised
          /\ out = Undefined

\* toObject was handed a Date and raised.
C16_OnNonObjectsWitness ==
    /\ pc = "toObject"
    /\ snapArg.t = "date"
    /\ raised

\* toArray was handed null and raised.
C16_OnNonObjectsWitnessNull ==
    /\ pc = "toArray"
    /\ snapArg = Null
    /\ raised

\* The right shapes are converted: a list of records keyed by a Date's
\* string, a plain object mapped to an array.
C16_ConvertedWitness ==
    /\ pc = "toObject"
    /\ ~raised
    /\ snapArg.len = MaxList
    /\ DOMAIN snapOut.p = {DateString(5), "0"}

----------------------------------------------------------------------------
(* filter.                                                                 *)

\* Object.keys(object) for what is not undefined or null: a number and a
\* boolean have no keys.  (No caller of the model hands filter a string.)
KeysOf(h, object) == IF IsRef(object) THEN ObjectKeys(h, object.a) ELSE <<>>

RECURSIVE Kept(_, _, _, _)
RECURSIVE KeptIf(_, _, _, _)

\* Object.keys(object).filter(filterFunction): the callback on the keys
\* left, with this undefined; kept are the keys it has let through.
Kept(h, filterFunction, keys, kept) ==
    IF keys = <<>> THEN Ok(h, kept)
    ELSE KeptIf(Invoke(h, filterFunction, Undefined, Str(Head(keys))),
                filterFunction, keys, kept)

\* filterFunction has returned for the first of keys.
KeptIf(t, filterFunction, keys, kept) ==
    IF t.err THEN t
    ELSE Kept(t.h, filterFunction, Tail(keys),
              IF Truthy(t.v) THEN Append(kept, Head(keys)) ELSE kept)

\* What the clone of a value that was read gives.
Cloned(g) == IF g.err THEN g ELSE clone(g.h, g.v)

\* A clone of object[key] as the value to store.
ClonedValue(h, object, key) == Cloned(Get(h, object, key))

\* object[key], the value to store
FilterValue(h, object, key) == Get(h, object, key)

RECURSIVE FilterReduce(_, _, _, _)
RECURSIVE FilterStore(_, _, _, _)

\* .reduce((filteredMap, key) => ..., {}): the callback on the keys left.
FilterReduce(h, filteredMap, object, keys) ==
    IF keys = <<>> THEN Ok(h, Ref(filteredMap))
    ELSE FilterStore(FilterValue(h, object, Head(keys)), filteredMap, object,
                     keys)

\* filteredMap[key] = object[key]
FilterStore(g, filteredMap, object, keys) ==
    IF g.err THEN g
    ELSE FilterReduce(SetProp(g.h, filteredMap, Head(keys), g.v), filteredMap,
                      object, Tail(keys))

\* The {} that reduce starts with.
FilterInto(o, object, keys) == FilterReduce(o.h, o.a, object, keys)

\* The keys were filtered.
Filtered(k, object) ==
    IF k.err THEN k
    ELSE FilterInto(Alloc(k.h, PlainObj(<<>>)), object, k.v)

\* A TypeError from Object.keys on undefined and null, and from
\* Array.prototype.filter on what is no function.
filter(h, object, filterFunction) ==
    IF object.t \in {"undefined", "null"} THEN Throw(h)
    ELSE IF ~(IsRef(filterFunction) /\ h[filterFunction.a].k = "function")
    THEN Throw(h)
    ELSE Filtered(Kept(h, filterFunction, KeysOf(h, object), <<>>), object)

----------------------------------------------------------------------------
(* A caller of filter: it builds an object and a function of the key and   *)
(* calls filter with them.                                                 *)

\* The plain objects of before, the nested one, and no object.
FilterInputs == InputObjects \cup {Nested, Undefined, Null}

\* Functions that let every key through, every key but a, and none.
Predicates == {TFunc("f"), TFunc("notA"), TFunc("self")}

InitFilter ==
    \E tree \in FilterInputs, predicate \in Predicates :
        LET b == Build(Heap0, tree)
            f == Build(b.h, predicate)
        IN /\ heap = f.h
           /\ arg = b.v
           /\ cand = f.v
           /\ idKey = Undefined
           /\ pc = "start"
           /\ out = Undefined
           /\ raised = FALSE
           /\ snapArg = Snap(f.h, b.v)
           /\ snapCand = Snap(f.h, f.v)
           /\ snapOut = Undefined
           /\ touched = {}
           /\ muts = 0
           /\ cur = Undefined /\ chain = <<>> /\ uw = Undefined
           /\ snapUw = Undefined /\ rewrapped = Undefined
           /\ calls = 0 /\ ret = <<>>

\* const out = filter(arg, cand)
Filter ==
    /\ pc = "start"
    /\ Returned(filter(heap, arg, cand), "filter")

NextFilter == Filter \/ MutateOut

SpecFilter == InitFilter /\ [][NextFilter]_vars

\* The function cand lets the key through.
Passes(h, key) == Truthy(Invoke(h, cand, Undefined, Str(key)).v)

\* C17: for a plain object m and a function p of the key, filter(m, p)
\* returns a new object whose keys are the own keys of m that p lets
\* through, in the order m has them, each with the very value m has under
\* it (the same container, no clone); m is left as it was.
C17_FilterKeepsByReference ==
    [][(pc = "start" /\ IsRef(arg)) =>
          /\ ~raised'
          /\ IsRef(out')
          /\ out'.a \notin DOMAIN heap
          /\ heap'[out'.a].k = "object"
          /\ ObjectKeys(heap', out'.a)
               = SelectSeq(ObjectKeys(heap, arg.a),
                           LAMBDA key : Passes(heap, key))
          /\ \A i \in 1..Len(ObjectKeys(heap', out'.a)) :
                OwnOrInherited(heap', out'.a, ObjectKeys(heap', out'.a)[i])
                  = OwnOrInherited(heap, arg.a, ObjectKeys(heap', out'.a)[i])
          /\ \A a \in DOMAIN heap : heap'[a] = heap[a]
      ]_vars

\* C17's case: the function dropped the key a and let b through, and the
\* object returned has under b the container the argument has under b.
C17_Witness ==
    /\ pc = "filter"
    /\ ~raised
    /\ snapCand.f = "notA"
    /\ DOMAIN snapArg.p = {"a", "b"}
    /\ DOMAIN snapOut.p = {"b"}
    /\ IsRef(OwnOrInherited(heap, out.a, "b"))
    /\ OwnOrInherited(heap, out.a, "b") = OwnOrInherited(heap, arg.a, "b")

\* The same container on both sides: the caller changed it through the
\* object returned and finds the argument changed.
C17_WitnessShared ==
    /\ pc = "filter"
    /\ touched = {"out"}
    /\ Snap(heap, arg) # snapArg

----------------------------------------------------------------------------
(* What a wrapper stands for over time, under SpecWrap: snapOut is what    *)
(* unwrap(out) gave when safeWrap returned, chain the keys navigated from  *)
(* out to the wrapper the caller unwraps.                                  *)

\* C18: whatever the caller has done to the values that earlier unwrap
\* calls returned, unwrap of the wrapper under a chain of keys gives what
\* the chain gave when the root wrapper was made: the value found in the
\* wrapped value of then when every key is an own key, undefined when some
\* key does not exist.
C18_FixedValue ==
    (pc = "unwrap" /\ ~raised) =>
        /\ AllOwn(snapOut, chain) =>
              Shape(snapUw) = Shape(Follow(snapOut, chain))
        /\ SomeMissing(snapOut, chain) => snapUw = Undefined

\* C18 while the caller has changed nothing that unwrap returned (it may
\* have changed the argument it wrapped): there it holds.
C18_OnUntouched ==
    (pc = "unwrap" /\ ~raised /\ "out" \notin touched) =>
        /\ AllOwn(snapOut, chain) =>
              Shape(snapUw) = Shape(Follow(snapOut, chain))
        /\ SomeMissing(snapOut, chain) => snapUw = Undefined

\* The caller changed the argument it had wrapped, navigated and
\* unwrapped a container.
C18_OnUntouchedWitness ==
    /\ pc = "unwrap" /\ ~raised
    /\ touched = {"arg"}
    /\ chain # <<>>
    /\ AllOwn(snapOut, chain)
    /\ snapUw.t \in {"object", "array"}

====
